---- MODULE Spec2Model ----
(***************************************************************************)
(* A model of Gemini_calc.py: the encrypted credential store               *)
(* (APIKeyManager), the key dialog (APIKeyDialog), the calculation client  *)
(* (CalculatorAPI) and the calculator form (CalculatorApp).                *)
(*                                                                         *)
(* Python values are tagged records: None, Str(s) with s a sequence of     *)
(* code points, Bytes(b).  A file is None (absent) or Bytes(content).      *)
(* Fernet is modelled symbolically: a token carries its version byte, its  *)
(* IV, the AES-CBC ciphertext (which key, which IV, which plaintext) and   *)
(* the HMAC (which key signed which fields); unsigned changes are visible  *)
(* as a mismatch between the HMAC and the fields.  The token's timestamp   *)
(* is left out: decrypt() is called without a ttl and only signs it.       *)
(***************************************************************************)
EXTENDS Integers, Sequences, FiniteSets, TLC

\* -------------------------------------------------------------- bounds
NumKeys == 2          \* distinct outcomes of Fernet.generate_key()
MaxCredLen == 1       \* longest credential string handed to save_api_key
MaxFlips == 1         \* external byte changes to one written credential file
MaxNested == 1        \* handlers suspended inside update() at one time
MaxHistory == 2       \* lines the history box holds

\* -------------------------------------------------------------- values
None == [t |-> "None"]
Str(s) == [t |-> "str", v |-> s]
Bytes(b) == [t |-> "bytes", v |-> b]

Keys == 1..NumKeys
\* Two outcomes of os.urandom(16) inside encrypt(), and an IV no call drew.
IVs == {"iv1", "iv2"}
ForeignIV == "iv0"
\* The two holders of an APIKeyManager: CalculatorApp and APIKeyDialog.
Managers == {"app", "dialog"}

\* Code points of the modelled credential alphabet: space, "A", e-acute and
\* a lone surrogate (U+D800), which a Python str can hold.
CredChars == {32, 65, 233, 55296}

RECURSIVE StringsUpTo(_, _)
StringsUpTo(chars, n) ==
    IF n = 0 THEN {<<>>}
    ELSE LET shorter == StringsUpTo(chars, n - 1)
         IN shorter \cup {Append(s, c) : s \in shorter, c \in chars}

CredStrings == StringsUpTo(CredChars, MaxCredLen)

\* The credentials saved while the files are also changed from outside:
\* "A" and e-acute followed by a space.
SampleCreds == {<<65>>, <<233, 32>>}

\* ------------------------------------------------- str.encode / bytes.decode
IsSurrogate(cp) == cp >= 55296 /\ cp <= 57343

\* UTF-8 bytes of one code point (str.encode, default codec).
EncodeChar(cp) ==
    IF cp < 128 THEN <<cp>>
    ELSE IF cp < 2048 THEN <<192 + (cp \div 64), 128 + (cp % 64)>>
    ELSE IF cp < 65536
         THEN <<224 + (cp \div 4096), 128 + ((cp \div 64) % 64), 128 + (cp % 64)>>
    ELSE <<240 + (cp \div 262144), 128 + ((cp \div 4096) % 64),
           128 + ((cp \div 64) % 64), 128 + (cp % 64)>>

RECURSIVE Utf8Bytes(_)
Utf8Bytes(s) == IF s = <<>> THEN <<>> ELSE EncodeChar(Head(s)) \o Utf8Bytes(Tail(s))

\* api_key.encode(): raises UnicodeEncodeError on a lone surrogate.
Utf8Encode(s) ==
    IF \E i \in 1..Len(s) : IsSurrogate(s[i])
    THEN [ok |-> FALSE, v |-> <<>>]
    ELSE [ok |-> TRUE, v |-> Utf8Bytes(s)]

IsCont(b) == b >= 128 /\ b <= 191

\* bytes.decode(): strict UTF-8, UnicodeDecodeError on any malformed sequence.
RECURSIVE Utf8Decode(_)
Utf8Decode(b) ==
    IF b = <<>> THEN [ok |-> TRUE, v |-> <<>>]
    ELSE LET b1 == b[1]
             one == b1 < 128
             two == b1 >= 194 /\ b1 <= 223 /\ Len(b) >= 2 /\ IsCont(b[2])
             three == /\ b1 >= 224 /\ b1 <= 239 /\ Len(b) >= 3
                      /\ IsCont(b[2]) /\ IsCont(b[3])
             four == /\ b1 >= 240 /\ b1 <= 244 /\ Len(b) >= 4
                     /\ IsCont(b[2]) /\ IsCont(b[3]) /\ IsCont(b[4])
             cp == IF one THEN b1
                   ELSE IF two THEN (b1 - 192) * 64 + (b[2] - 128)
                   ELSE IF three
                        THEN (b1 - 224) * 4096 + (b[2] - 128) * 64 + (b[3] - 128)
                   ELSE IF four
                        THEN (b1 - 240) * 262144 + (b[2] - 128) * 4096
                             + (b[3] - 128) * 64 + (b[4] - 128)
                   ELSE 0
             n == IF one THEN 1 ELSE IF two THEN 2 ELSE IF three THEN 3 ELSE 4
             valid == \/ one
                      \/ two
                      \/ (three /\ cp >= 2048 /\ ~IsSurrogate(cp))
                      \/ (four /\ cp >= 65536 /\ cp <= 1114111)
         IN IF ~valid THEN [ok |-> FALSE, v |-> <<>>]
            ELSE LET rest == Utf8Decode(SubSeq(b, n + 1, Len(b)))
                 IN IF rest.ok THEN [ok |-> TRUE, v |-> <<cp>> \o rest.v]
                    ELSE [ok |-> FALSE, v |-> <<>>]

\* ------------------------------------------------------------------ Fernet
FernetVersion == 128

\* AES-CBC of pt under key k with the given iv; x counts flipped bytes mod 2.
AesCbc(k, iv, pt) == [k |-> k, iv |-> iv, pt |-> pt, x |-> 0]

\* HMAC-SHA256 under key k over version || iv || ciphertext.
Hmac(k, ver, iv, ct) == [k |-> k, ver |-> ver, iv |-> iv, ct |-> ct, x |-> 0]

\* Fernet(k).encrypt(data) with the IV the random source returned.
FernetEncrypt(k, data, iv) ==
    LET ct == AesCbc(k, iv, data)
    IN [wf |-> TRUE, ver |-> FernetVersion, iv |-> iv, ct |-> ct,
        hmac |-> Hmac(k, FernetVersion, iv, ct)]

\* What CBC decryption under a wrong IV does to the first plaintext block.
FlipFirst(pt) ==
    <<IF pt[1] % 2 = 0 THEN pt[1] + 1 ELSE pt[1] - 1>> \o Tail(pt)

\* AES-CBC decryption and unpadding; a foreign or damaged ciphertext fails
\* to unpad, a changed IV garbles the first block only.
AesCbcDecrypt(k, iv, ct) ==
    IF ct.k # k \/ ct.x # 0 \/ (ct.pt = <<>> /\ iv # ct.iv)
    THEN [ok |-> FALSE, v |-> <<>>]
    ELSE IF iv = ct.iv THEN [ok |-> TRUE, v |-> ct.pt]
    ELSE [ok |-> TRUE, v |-> FlipFirst(ct.pt)]

\* A decrypt that skips the signature check.
VerifyNothing(k, tok) == TRUE

\* The signature check of Fernet.decrypt.
VerifySignature(k, tok) == tok.hmac = Hmac(k, tok.ver, tok.iv, tok.ct)

\* Fernet(k).decrypt(token): InvalidToken (ok = FALSE) unless the token
\* parses, has the version byte, verifies under k and unpads.
FernetDecrypt(k, tok) ==
    IF ~tok.wf \/ tok.ver # FernetVersion \/ ~VerifySignature(k, tok)
    THEN [ok |-> FALSE, v |-> <<>>]
    ELSE AesCbcDecrypt(k, tok.iv, tok.ct)

\* --------------------------------------------------------------- str.strip
\* The white space of the modelled code points (str.isspace).
IsSpace(c) == c \in {9, 10, 11, 12, 13, 28, 29, 30, 31, 32, 133, 160}

RECURSIVE LStrip(_)
LStrip(s) == IF s # <<>> /\ IsSpace(Head(s)) THEN LStrip(Tail(s)) ELSE s

RECURSIVE RStrip(_)
RStrip(s) ==
    IF s # <<>> /\ IsSpace(s[Len(s)]) THEN RStrip(SubSeq(s, 1, Len(s) - 1)) ELSE s

Strip(s) == RStrip(LStrip(s))

\* ------------------------------------------------------ float() and :.2f
\* A float: nan, an infinity, or a finite value of h hundredths with its
\* sign kept apart (0.0 and -0.0 are two floats that compare equal).
Finite(neg, h) == [kind |-> "fin", neg |-> neg, h |-> h]
NaN == [kind |-> "nan", neg |-> FALSE, h |-> 0]
Infinity(neg) == [kind |-> "inf", neg |-> neg, h |-> 0]

IsDigit(c) == c >= 48 /\ c <= 57

RECURSIVE DigitsValue(_)
DigitsValue(d) ==
    IF d = <<>> THEN 0 ELSE DigitsValue(SubSeq(d, 1, Len(d) - 1)) * 10 + (d[Len(d)] - 48)

\* ASCII lower case, for float()'s "nan", "inf" and "infinity".
Lower(s) == [i \in 1..Len(s) |-> IF s[i] >= 65 /\ s[i] <= 90 THEN s[i] + 32 ELSE s[i]]

\* float(text): white space stripped, an optional sign, then nan, inf,
\* infinity, or digits with at most one point and at least one digit.
\* ok = FALSE is ValueError.  Exponents, underscores and more than two
\* fraction digits lie outside the texts the model draws.
ParseFloat(text) ==
    LET t == Strip(text)
        signed == t # <<>> /\ t[1] \in {43, 45}
        neg == signed /\ t[1] = 45
        body == IF signed THEN Tail(t) ELSE t
        dots == {i \in 1..Len(body) : body[i] = 46}
        dot == IF dots = {} THEN Len(body) + 1 ELSE CHOOSE i \in dots : TRUE
        int == SubSeq(body, 1, dot - 1)
        frac == SubSeq(body, dot + 1, Len(body))
        decimal == /\ Cardinality(dots) <= 1
                   /\ \A i \in 1..Len(int) : IsDigit(int[i])
                   /\ \A i \in 1..Len(frac) : IsDigit(frac[i])
                   /\ Len(int) + Len(frac) >= 1
                   /\ Len(frac) <= 2
        scale == IF Len(frac) = 0 THEN 0
                 ELSE IF Len(frac) = 1 THEN DigitsValue(frac) * 10
                 ELSE DigitsValue(frac)
    IN IF Lower(body) = <<110, 97, 110>> THEN [ok |-> TRUE, v |-> NaN]
       ELSE IF Lower(body) \in {<<105, 110, 102>>,
                                <<105, 110, 102, 105, 110, 105, 116, 121>>}
            THEN [ok |-> TRUE, v |-> Infinity(neg)]
       ELSE IF decimal
            THEN [ok |-> TRUE, v |-> Finite(neg, DigitsValue(int) * 100 + scale)]
       ELSE [ok |-> FALSE, v |-> NaN]

\* A zero test that misses the negative zero.
IsZeroUnsigned(f) == f.kind = "fin" /\ f.h = 0 /\ ~f.neg

\* num2 == 0 on floats: true of 0.0 and of -0.0, false of nan.
IsZero(f) == f.kind = "fin" /\ f.h = 0

RECURSIVE DigitsOf(_)
DigitsOf(n) == IF n < 10 THEN <<48 + n>> ELSE Append(DigitsOf(n \div 10), 48 + (n % 10))

\* f"{result:.2f}"
Format2f(f) ==
    LET sign == IF f.neg THEN <<45>> ELSE <<>>
    IN IF f.kind = "nan" THEN <<110, 97, 110>>
       ELSE IF f.kind = "inf" THEN sign \o <<105, 110, 102>>
       ELSE sign \o DigitsOf(f.h \div 100) \o <<46>>
                 \o <<48 + ((f.h % 100) \div 10), 48 + (f.h % 10)>>

\* -------------------------------------------------------------------- HTTP
\* requests.post raised (no response), or a response with a status and a
\* body: not JSON, JSON without candidates[0].content.parts[0].text, or
\* JSON with that text.
Raised == [kind |-> "raised", status |-> 0, json |-> FALSE, cand |-> FALSE, text |-> <<>>]
Http(status, json, cand, text) ==
    [kind |-> "http", status |-> status, json |-> json, cand |-> cand, text |-> text]

StatusOK == 200

\* A key test that takes every 2xx status as success.
TestApiKeyAny2xx(api_key, resp) ==
    resp.kind = "http" /\ resp.status >= 200 /\ resp.status <= 299

\* APIKeyDialog.test_api_key: status 200 is a valid key, anything else and
\* any exception is not.
TestApiKey(api_key, resp) ==
    IF resp.kind = "raised" THEN FALSE ELSE resp.status = StatusOK

\* str(e) of the exception call_api raises: "API call failed: " and the
\* text of the exception caught inside.
ApiCallFailed(e, status, text) ==
    [type |-> "Exception", prefix |-> "API call failed", e |-> e, status |-> status,
     text |-> text]

\* A call_api that takes every 2xx status as success.
CallApiAny2xx(resp) ==
    IF resp.kind = "raised" THEN [ok |-> FALSE, e |-> ApiCallFailed("RequestException", 0, <<>>)]
    ELSE IF resp.status < 200 \/ resp.status > 299
         THEN [ok |-> FALSE, e |-> ApiCallFailed("API Error", resp.status, <<>>)]
    ELSE IF ~resp.json THEN [ok |-> FALSE, e |-> ApiCallFailed("JSONDecodeError", 0, <<>>)]
    ELSE IF ~resp.cand THEN [ok |-> FALSE, e |-> ApiCallFailed("KeyError", 0, <<>>)]
    ELSE LET f == ParseFloat(resp.text)
         IN IF f.ok THEN [ok |-> TRUE, v |-> f.v]
            ELSE [ok |-> FALSE, e |-> ApiCallFailed("ValueError", 0, resp.text)]

\* A call_api that lets the ValueError of float() through unwrapped.
CallApiUnwrapped(resp) ==
    IF resp.kind = "raised" THEN [ok |-> FALSE, e |-> ApiCallFailed("RequestException", 0, <<>>)]
    ELSE IF resp.status # StatusOK
         THEN [ok |-> FALSE, e |-> ApiCallFailed("API Error", resp.status, <<>>)]
    ELSE IF ~resp.json THEN [ok |-> FALSE, e |-> ApiCallFailed("JSONDecodeError", 0, <<>>)]
    ELSE IF ~resp.cand THEN [ok |-> FALSE, e |-> ApiCallFailed("KeyError", 0, <<>>)]
    ELSE LET f == ParseFloat(resp.text)
         IN IF f.ok THEN [ok |-> TRUE, v |-> f.v]
            ELSE [ok |-> FALSE,
                  e |-> [type |-> "ValueError", prefix |-> "", e |-> "ValueError",
                         status |-> 0, text |-> resp.text]]

\* CalculatorAPI.call_api on the response the endpoint gave: a float, or
\* the exception re-raised by the except clause.
CallApi(resp) ==
    IF resp.kind = "raised" THEN [ok |-> FALSE, e |-> ApiCallFailed("RequestException", 0, <<>>)]
    ELSE IF resp.status # StatusOK
         THEN [ok |-> FALSE, e |-> ApiCallFailed("API Error", resp.status, <<>>)]
    ELSE IF ~resp.json THEN [ok |-> FALSE, e |-> ApiCallFailed("JSONDecodeError", 0, <<>>)]
    ELSE IF ~resp.cand THEN [ok |-> FALSE, e |-> ApiCallFailed("KeyError", 0, <<>>)]
    ELSE LET f == ParseFloat(resp.text)
         IN IF f.ok THEN [ok |-> TRUE, v |-> f.v]
            ELSE [ok |-> FALSE, e |-> ApiCallFailed("ValueError", 0, resp.text)]

\* ------------------------------------------------------------- state
VARIABLES
    keyFile,    \* ~/.calculator_key: None or Bytes(key)
    credFile,   \* ~/.calculator_api_key: None or Bytes(token)
    mgr,        \* harness: manager instance -> None or [key |-> k]
    saved,      \* history: None or the last save_api_key, [tok, key, s]
    flips,      \* history: external byte changes since the file was written
    out,        \* what the last call did and returned
    root,       \* the Tk root: "none" (no process), "alive" or "destroyed"
    mainUI,     \* create_main_ui has run
    api_client, \* CalculatorApp.api_client: None or Str(its api_key)
    result_label,  \* None (the placeholder text) or Str(the shown result)
    history_text,  \* the lines of the history box
    stack       \* the suspended calls, outermost first

store == <<keyFile, credFile, mgr, saved, flips>>
app == <<root, mainUI, api_client, result_label, history_text, stack>>
vars == <<keyFile, credFile, mgr, saved, flips, out, root, mainUI, api_client,
          result_label, history_text, stack>>

\* ------------------------------------------------------ APIKeyManager
\* A key lookup that has lost its exists() test.
GetOrCreateAlways(kf, gen) == [file |-> Bytes(gen), ret |-> gen]

\* _get_or_create_encryption_key with gen the outcome of generate_key().
GetOrCreateEncryptionKey(kf, gen) ==
    IF kf = None THEN [file |-> Bytes(gen), ret |-> gen]
    ELSE [file |-> kf, ret |-> kf.v]

\* A save that opens the file for appending: the old token stays in front.
SaveApiKeyAppend(k, s, iv, cf) ==
    LET tok == FernetEncrypt(k, Utf8Bytes(s), iv)
    IN IF cf = None THEN [raised |-> FALSE, file |-> Bytes(tok)]
       ELSE [raised |-> FALSE, file |-> Bytes([cf.v EXCEPT !.wf = FALSE])]

\* save_api_key: the new credential file, or a raise before the file is opened.
SaveApiKey(k, s, iv, cf) ==
    LET data == Utf8Encode(s)
    IN IF data.ok THEN [raised |-> FALSE, file |-> Bytes(FernetEncrypt(k, data.v, iv))]
       ELSE [raised |-> TRUE, file |-> cf]

\* load_api_key: every exception inside the try is turned into None.
LoadApiKey(k, cf) ==
    IF cf = None THEN None
    ELSE LET data == FernetDecrypt(k, cf.v)
         IN IF ~data.ok THEN None
            ELSE LET s == Utf8Decode(data.v)
                 IN IF s.ok THEN Str(s.v) ELSE None

\* A delete with the existence test inverted: unlink raises FileNotFoundError.
DeleteApiKeyInverted(cf) ==
    IF cf = None THEN [raised |-> TRUE, file |-> cf] ELSE [raised |-> FALSE, file |-> cf]

\* delete_api_key: unlink if the file exists.
DeleteApiKey(cf) ==
    IF cf # None THEN [raised |-> FALSE, file |-> None]
    ELSE [raised |-> FALSE, file |-> cf]

\* What a later call remembers of the call before it.
Brief(o) == [op |-> o.op, raised |-> (o.op \in {"save", "delete"} /\ o.raised)]

Init ==
    /\ keyFile = None
    /\ credFile = None
    /\ mgr = [m \in Managers |-> None]
    /\ saved = None
    /\ flips = 0
    /\ out = [op |-> "none", sent |-> <<>>, wrote |-> FALSE]
    /\ root = "none"
    /\ mainUI = FALSE
    /\ api_client = None
    /\ result_label = None
    /\ history_text = <<>>
    /\ stack = <<>>

\* APIKeyManager(): the harness constructs (or replaces) instance m.
NewManager(m) ==
    \E gen \in Keys :
        LET r == GetOrCreateEncryptionKey(keyFile, gen)
        IN /\ keyFile' = r.file
           /\ mgr' = [mgr EXCEPT ![m] = [key |-> r.ret]]
           /\ out' = [op |-> "init", ret |-> r.ret]
           /\ UNCHANGED <<credFile, saved, flips, app>>

\* m._get_or_create_encryption_key() called again on a live instance.
CallGetOrCreate(m) ==
    /\ mgr[m] # None
    /\ \E gen \in Keys :
        LET r == GetOrCreateEncryptionKey(keyFile, gen)
        IN /\ keyFile' = r.file
           /\ out' = [op |-> "getkey", ret |-> r.ret]
           /\ UNCHANGED <<credFile, mgr, saved, flips, app>>

CallSave(m, s) ==
    /\ mgr[m] # None
    /\ \E iv \in IVs :
        LET r == SaveApiKey(mgr[m].key, s, iv, credFile)
        IN /\ credFile' = r.file
           /\ saved' = IF r.raised THEN saved
                       ELSE [tok |-> r.file.v, key |-> mgr[m].key, s |-> s]
           /\ flips' = IF r.raised THEN flips ELSE 0
           /\ out' = [op |-> "save", arg |-> s, raised |-> r.raised]
           /\ UNCHANGED <<keyFile, mgr, app>>

CallLoad(m) ==
    /\ mgr[m] # None
    /\ out' = [op |-> "load", key |-> mgr[m].key,
               ret |-> LoadApiKey(mgr[m].key, credFile), after |-> Brief(out)]
    /\ UNCHANGED <<keyFile, credFile, mgr, saved, flips, app>>

CallDelete(m) ==
    /\ mgr[m] # None
    /\ credFile' = DeleteApiKey(credFile).file
    /\ out' = [op |-> "delete", raised |-> DeleteApiKey(credFile).raised]
    /\ UNCHANGED <<keyFile, mgr, saved, flips, app>>

\* One call on manager m, a save drawing its argument from strs.
StoreStep(m, strs) ==
    \/ NewManager(m)
    \/ CallGetOrCreate(m)
    \/ \E s \in strs : CallSave(m, s)
    \/ CallLoad(m)
    \/ CallDelete(m)

StoreNext == \E m \in Managers : StoreStep(m, CredStrings)

\* The credential store driven through its public methods, files untouched
\* from outside.
SpecStore == Init /\ [][StoreNext]_vars

\* ------------------------------------------------------------ environment
\* Something outside the program removes the key file.
ExternalDeleteKeyFile ==
    /\ keyFile # None
    /\ keyFile' = None
    /\ out' = [op |-> "env"]
    /\ UNCHANGED <<credFile, mgr, saved, flips, app>>

\* One byte of the credential file is changed: the version byte, a byte of
\* the IV, of the ciphertext or of the HMAC, or a character that leaves the
\* file no longer base64.
FlipByte(tok, part, iv) ==
    CASE part = "ver" -> [tok EXCEPT !.ver = IF tok.ver = FernetVersion
                                             THEN FernetVersion + 1 ELSE FernetVersion]
      [] part = "iv" -> [tok EXCEPT !.iv = iv]
      [] part = "ct" -> [tok EXCEPT !.ct.x = 1 - tok.ct.x]
      [] part = "hmac" -> [tok EXCEPT !.hmac.x = 1 - tok.hmac.x]
      [] part = "b64" -> [tok EXCEPT !.wf = ~tok.wf]

ExternalFlipByte ==
    /\ credFile # None
    /\ flips < MaxFlips
    /\ \E part \in {"ver", "iv", "ct", "hmac", "b64"}, iv \in IVs \cup {ForeignIV} :
        /\ part = "iv" => iv # credFile.v.iv
        /\ part # "iv" => iv = ForeignIV
        /\ credFile' = Bytes(FlipByte(credFile.v, part, iv))
    /\ flips' = flips + 1
    /\ out' = [op |-> "env"]
    /\ UNCHANGED <<keyFile, mgr, saved, app>>

EnvNext == ExternalDeleteKeyFile \/ ExternalFlipByte

\* The store with the two files also changed from outside, so that a manager
\* built before the key file was removed meets a file written after, and the
\* reverse.
SpecStoreEnv ==
    Init /\ [][(\E m \in Managers : StoreStep(m, SampleCreds)) \/ EnvNext]_vars

\* ------------------------------------------------------------ application
\* The texts typed into the dialog's entry: nothing, a space, "A", and
\* e-acute between two spaces.
KeyTexts == {<<>>, <<32>>, <<65>>, <<32, 233, 32>>}

\* The texts typed into the first number entry, "6" and "x", and into the
\* second, "3", "0", "-0" and "x".
FirstTexts == {<<54>>, <<120>>}
SecondTexts == {<<51>>, <<48>>, <<45, 48>>, <<120>>}

\* Two of the four operation buttons: Divide, and Add for the three that
\* calculate treats alike.
Operations == {"+", "/"}

\* The answers of the endpoint: no answer, an error status, a 2xx status
\* that is not 200, and status 200 with a body that is not JSON, has no
\* candidate text, or has the text " -2.5" or "a4".
Responses ==
    {Raised, Http(404, FALSE, FALSE, <<>>), Http(201, TRUE, TRUE, <<32, 45, 50, 46, 53>>),
     Http(StatusOK, FALSE, FALSE, <<>>), Http(StatusOK, TRUE, FALSE, <<>>),
     Http(StatusOK, TRUE, TRUE, <<32, 45, 50, 46, 53>>),
     Http(StatusOK, TRUE, TRUE, <<97, 52>>)}

\* Python truth of a str or None (if not api_key).
Truthy(v) == v # None /\ v.v # <<>>

\* The request test_api_key posts, and the one call_api posts.
ValidateRequest(k) == [key |-> k, prompt |-> "Return only the number 1"]
CalculateRequest(k, num1, op, num2) ==
    [key |-> k, prompt |-> "Calculate", num1 |-> num1, op |-> op, num2 |-> num2]

\* A message of fixed text, in the shape of ApiCallFailed.
Message(s) == [type |-> "", prefix |-> s, e |-> "", status |-> 0, text |-> <<>>]

\* The frames of the call stack: APIKeyDialog waited for in wait_window,
\* test_and_save_key inside dialog.update(), calculate inside root.update().
WaitFrame(kind, km) ==
    [f |-> "wait", kind |-> kind, api_key |-> None, km |-> km,
     alive |-> TRUE, timer |-> FALSE]
TskFrame(k) == [f |-> "tsk", api_key |-> k]
CalcFrame(num1, op, num2) == [f |-> "calc", num1 |-> num1, op |-> op, num2 |-> num2]

Top == stack[Len(stack)]
Pop(s) == SubSeq(s, 1, Len(s) - 1)

\* The dialog that holds the grab, if one does.
LiveDialogs == {i \in DOMAIN stack : stack[i].f = "wait" /\ stack[i].alive}
Nested == Cardinality({i \in DOMAIN stack : stack[i].f \in {"tsk", "calc"}})
PendingCalcs == Cardinality({i \in DOMAIN stack : stack[i].f = "calc"})

\* Tk is dispatching events: mainloop, an update(), or the wait_window of a
\* dialog that is still there.
CanDispatch ==
    /\ root = "alive"
    /\ IF stack = <<>> THEN TRUE
       ELSE IF Top.f = "wait" THEN Top.alive
       ELSE TRUE

\* The dialog's widgets take the events while it holds the grab; the main
\* window's do once create_main_ui has run and no dialog holds the grab.
DialogActive == CanDispatch /\ LiveDialogs # {}
MainUIActive == CanDispatch /\ mainUI /\ LiveDialogs = {}

\* dialog.destroy(): the window is gone, its grab released.
DestroyDialog(s) ==
    [i \in DOMAIN s |-> IF s[i].f = "wait"
                        THEN [s[i] EXCEPT !.alive = FALSE, !.timer = FALSE]
                        ELSE s[i]]

\* CalculatorApp(root): __init__ and setup_api up to the main UI or to the
\* wait for the startup dialog.
StartApp ==
    /\ root = "none"
    /\ \E gen \in Keys :
        LET r1 == GetOrCreateEncryptionKey(keyFile, gen)
            r2 == GetOrCreateEncryptionKey(r1.file, gen)
            api_key == LoadApiKey(r1.ret, credFile)
        IN /\ mgr' = [mgr EXCEPT !["app"] = [key |-> r1.ret]]
           /\ root' = "alive"
           /\ IF Truthy(api_key)
              THEN /\ keyFile' = r1.file
                   /\ api_client' = api_key
                   /\ mainUI' = TRUE
                   /\ stack' = <<>>
              ELSE /\ keyFile' = r2.file
                   /\ api_client' = None
                   /\ mainUI' = FALSE
                   /\ stack' = <<WaitFrame("startup", r2.ret)>>
           /\ out' = [op |-> "setup_api", loaded |-> api_key, sent |-> <<>>,
                      wrote |-> FALSE]
    /\ UNCHANGED <<credFile, saved, flips, result_label, history_text>>

\* Test and Save, up to dialog.update().
ClickTestAndSave(text) ==
    /\ DialogActive
    /\ LET api_key == Strip(text)
       IN IF api_key = <<>>
          THEN /\ out' = [op |-> "test_and_save_key", status |-> "Please enter an API key",
                          sent |-> <<>>, wrote |-> FALSE]
               /\ UNCHANGED stack
          ELSE /\ Nested < MaxNested
               /\ stack' = Append(stack, TskFrame(api_key))
               /\ out' = [op |-> "test_and_save_key", status |-> "Testing API key...",
                          sent |-> <<>>, wrote |-> FALSE]
    /\ UNCHANGED <<store, root, mainUI, api_client, result_label, history_text>>

\* The fields test_and_save_key leaves in its dialog after update().
AfterTest(d, k, valid, raised) ==
    IF valid /\ ~raised THEN [d EXCEPT !.api_key = Str(k), !.timer = d.alive] ELSE d

\* test_and_save_key from dialog.update() on: the test, and the save of a
\* key that passed it.  With the dialog destroyed meanwhile the status
\* label raises TclError, after the save and the assignment of api_key.
ReturnTestAndSave(resp) ==
    /\ stack # <<>> /\ Top.f = "tsk"
    /\ \E iv \in IVs :
        LET k == Top.api_key
            rest == Pop(stack)
            i == CHOOSE j \in DOMAIN rest :
                     /\ rest[j].f = "wait"
                     /\ \A l \in DOMAIN rest : rest[l].f = "wait" => l <= j
            d == rest[i]
            valid == TestApiKey(k, resp)
            r == SaveApiKey(d.km, k, iv, credFile)
            wrote == valid /\ ~r.raised
        IN /\ credFile' = IF valid THEN r.file ELSE credFile
           /\ saved' = IF wrote THEN [tok |-> r.file.v, key |-> d.km, s |-> k] ELSE saved
           /\ flips' = IF wrote THEN 0 ELSE flips
           /\ stack' = [rest EXCEPT ![i] = AfterTest(d, k, valid, r.raised)]
           /\ out' = [op |-> "test_and_save_key",
                      status |-> IF ~d.alive \/ (valid /\ r.raised) THEN "raised"
                                 ELSE IF valid
                                      THEN "API key validated and saved successfully!"
                                      ELSE "Invalid API key. Please check and try again.",
                      sent |-> <<ValidateRequest(k)>>, resp |-> resp, km |-> d.km,
                      wrote |-> wrote]
    /\ UNCHANGED <<keyFile, mgr, root, mainUI, api_client, result_label, history_text>>

\* Cancel, or the window manager's close button of the dialog.
ClickCancel ==
    /\ DialogActive
    /\ stack' = DestroyDialog(stack)
    /\ out' = [op |-> "cancel", sent |-> <<>>, wrote |-> FALSE]
    /\ UNCHANGED <<store, root, mainUI, api_client, result_label, history_text>>

\* dialog.after(1500, dialog.destroy) comes due.
TimerFires ==
    /\ DialogActive
    /\ \E i \in LiveDialogs : stack[i].timer
    /\ stack' = DestroyDialog(stack)
    /\ out' = [op |-> "after", sent |-> <<>>, wrote |-> FALSE]
    /\ UNCHANGED <<store, root, mainUI, api_client, result_label, history_text>>

\* wait_window returns to setup_api or to change_api_key.
ReturnWaitWindow ==
    /\ stack # <<>> /\ Top.f = "wait" /\ ~Top.alive
    /\ stack' = Pop(stack)
    /\ IF Top.kind = "startup"
       THEN IF Truthy(Top.api_key)
            THEN /\ api_client' = Top.api_key
                 /\ mainUI' = TRUE
                 /\ root' = root
                 /\ out' = [op |-> "setup_api", loaded |-> Top.api_key, sent |-> <<>>,
                            wrote |-> FALSE]
            ELSE /\ root' = "destroyed"
                 /\ out' = [op |-> "setup_api", loaded |-> None, sent |-> <<>>,
                            wrote |-> FALSE,
                            msg |-> Message("No valid API key provided. Application will close.")]
                 /\ UNCHANGED <<api_client, mainUI>>
       ELSE /\ api_client' = IF Truthy(Top.api_key) THEN Top.api_key ELSE api_client
            /\ out' = [op |-> "change_api_key", loaded |-> Top.api_key, sent |-> <<>>,
                       wrote |-> FALSE]
            /\ UNCHANGED <<root, mainUI>>
    /\ UNCHANGED <<store, result_label, history_text>>

\* Change API Key, up to wait_window.
ClickChangeApiKey ==
    /\ MainUIActive
    /\ \E gen \in Keys :
        LET r == GetOrCreateEncryptionKey(keyFile, gen)
        IN /\ keyFile' = r.file
           /\ stack' = Append(stack, WaitFrame("change", r.ret))
    /\ out' = [op |-> "change_api_key", sent |-> <<>>, wrote |-> FALSE]
    /\ UNCHANGED <<credFile, mgr, saved, flips, root, mainUI, api_client,
                   result_label, history_text>>

\* An operation button, up to root.update(): float() of both entries and
\* the zero check.
ClickCalculate(operation, text1, text2) ==
    /\ MainUIActive
    /\ LET num1 == ParseFloat(text1)
           num2 == ParseFloat(text2)
       IN IF ~num1.ok \/ ~num2.ok
          THEN /\ out' = [op |-> "calculate", operation |-> operation, text2 |-> text2,
                          sent |-> <<>>, wrote |-> FALSE,
                          msg |-> Message("Please enter valid numbers")]
               /\ UNCHANGED stack
          ELSE IF operation = "/" /\ IsZero(num2.v)
          THEN /\ out' = [op |-> "calculate", operation |-> operation, text2 |-> text2,
                          sent |-> <<>>, wrote |-> FALSE,
                          msg |-> Message("Cannot divide by zero")]
               /\ UNCHANGED stack
          ELSE /\ Nested < MaxNested
               /\ Len(history_text) + PendingCalcs < MaxHistory
               /\ stack' = Append(stack, CalcFrame(num1.v, operation, num2.v))
               /\ out' = [op |-> "calculate", operation |-> operation, text2 |-> text2,
                          sent |-> <<>>, wrote |-> FALSE, msg |-> None]
    /\ UNCHANGED <<store, root, mainUI, api_client, result_label, history_text>>

\* A calculate that writes the history line before it looks at the result.
ShowResultEager(r, num1, operation, num2, label, history) ==
    [label |-> label,
     history |-> Append(history, [num1 |-> num1, op |-> operation, num2 |-> num2,
                                  result |-> <<>>]),
     msg |-> IF r.ok THEN None ELSE r.e]

\* calculate after call_api: the result and the history line, or the
\* message box of the except clause that caught the exception.
ShowResult(r, num1, operation, num2, label, history) ==
    IF r.ok
    THEN [label |-> Str(Format2f(r.v)),
          history |-> Append(history, [num1 |-> num1, op |-> operation, num2 |-> num2,
                                       result |-> Format2f(r.v)]),
          msg |-> None]
    ELSE [label |-> label, history |-> history,
          msg |-> IF r.e.type = "ValueError" THEN Message("Please enter valid numbers")
                  ELSE r.e]

\* calculate from root.update() on: call_api with the client of this moment.
ReturnCalculate(resp) ==
    /\ stack # <<>> /\ Top.f = "calc"
    /\ LET r == CallApi(resp)
           shown == ShowResult(r, Top.num1, Top.op, Top.num2, result_label, history_text)
       IN /\ result_label' = shown.label
          /\ history_text' = shown.history
          /\ out' = [op |-> "call_api", operation |-> Top.op, num2 |-> Top.num2,
                     sent |-> <<CalculateRequest(api_client.v, Top.num1, Top.op, Top.num2)>>,
                     resp |-> resp, ret |-> r, msg |-> shown.msg, wrote |-> FALSE]
    /\ stack' = Pop(stack)
    /\ UNCHANGED <<store, root, mainUI, api_client>>

\* The main window is closed with no call suspended, or the process ends
\* after setup_api destroyed the root; the files stay for the next run.
Quit ==
    /\ root \in {"alive", "destroyed"}
    /\ stack = <<>>
    /\ root' = "none"
    /\ mainUI' = FALSE
    /\ api_client' = None
    /\ result_label' = None
    /\ history_text' = <<>>
    /\ mgr' = [m \in Managers |-> None]
    /\ out' = [op |-> "quit", sent |-> <<>>, wrote |-> FALSE]
    /\ UNCHANGED <<keyFile, credFile, saved, flips, stack>>

AppNext ==
    \/ StartApp
    \/ \E text \in KeyTexts : ClickTestAndSave(text)
    \/ \E resp \in Responses : ReturnTestAndSave(resp)
    \/ ClickCancel
    \/ TimerFires
    \/ ReturnWaitWindow
    \/ ClickChangeApiKey
    \/ \E operation \in Operations, text1 \in FirstTexts, text2 \in SecondTexts :
           ClickCalculate(operation, text1, text2)
    \/ \E resp \in Responses : ReturnCalculate(resp)
    \/ Quit

\* The program run by its user, the two files touched by nothing else.
Spec == Init /\ [][AppNext]_vars

\* The key handling alone: startup, the dialogs, Change API Key and quit.
KeysNext ==
    \/ StartApp
    \/ \E text \in KeyTexts : ClickTestAndSave(text)
    \/ \E resp \in Responses : ReturnTestAndSave(resp)
    \/ ClickCancel
    \/ TimerFires
    \/ ReturnWaitWindow
    \/ ClickChangeApiKey
    \/ Quit

SpecKeys == Init /\ [][KeysNext]_vars

\* The main window just created by setup_api, for any key, IV and stored
\* credential the dialog can have saved.
CalcInit ==
    \E k \in Keys, iv \in IVs, text \in KeyTexts :
        LET s == Strip(text)
            tok == FernetEncrypt(k, Utf8Bytes(s), iv)
        IN /\ s # <<>>
           /\ keyFile = Bytes(k)
           /\ credFile = Bytes(tok)
           /\ mgr = [m \in Managers |-> IF m = "app" THEN [key |-> k] ELSE None]
           /\ saved = [tok |-> tok, key |-> k, s |-> s]
           /\ flips = 0
           /\ out = [op |-> "setup_api", loaded |-> Str(s), sent |-> <<>>, wrote |-> FALSE]
           /\ root = "alive"
           /\ mainUI = TRUE
           /\ api_client = Str(s)
           /\ result_label = None
           /\ history_text = <<>>
           /\ stack = <<>>

\* The calculations alone, from the main window on.
CalcNext ==
    \/ \E operation \in Operations, text1 \in FirstTexts, text2 \in SecondTexts :
           ClickCalculate(operation, text1, text2)
    \/ \E resp \in Responses : ReturnCalculate(resp)

SpecCalc == CalcInit /\ [][CalcNext]_vars

\* ------------------------------------------------------------------ claims
\* C1: save_api_key(s) immediately followed by load_api_key() returns exactly
\* s, whatever was saved or deleted before; right after a save every manager
\* of the profile reads back the saved string from the file.
C1_RoundTrip ==
    /\ (out.op = "save" /\ ~out.raised) =>
          \A m \in Managers :
              mgr[m] # None => LoadApiKey(mgr[m].key, credFile) = Str(out.arg)
    /\ (out.op = "load" /\ out.after.op = "save" /\ ~out.after.raised) =>
          out.ret = Str(saved.s)

C1_Witness ==
    /\ out.op = "load" /\ out.after.op = "save"
    /\ out.ret = Str(<<233>>)

\* C2: load_api_key returns None, never a corrupted string, whenever the file
\* is not exactly the token the last save wrote under the loading manager's key.
C2_TamperGivesNone ==
    out.op = "load" =>
        \/ out.ret = None
        \/ /\ saved # None
           /\ credFile = Bytes(saved.tok)
           /\ out.key = saved.key
           /\ out.ret = Str(saved.s)

C2_Witness ==
    /\ out.op = "load" /\ out.ret = None
    /\ saved # None /\ credFile # None
    /\ credFile # Bytes(saved.tok)
    /\ credFile.v.ct = saved.tok.ct

\* C3: once the key file exists no call changes it, every
\* _get_or_create_encryption_key() returns its bytes, and every manager
\* holds them.
C3_KeyStable ==
    /\ [](\A m \in Managers : mgr[m] # None => keyFile = Bytes(mgr[m].key))
    /\ [][keyFile # None =>
             /\ keyFile' = keyFile
             /\ out'.op \in {"init", "getkey"} => out'.ret = keyFile.v]_vars

C3_Witness ==
    /\ out.op = "getkey"
    /\ \A m \in Managers : mgr[m] # None
    /\ credFile # None

\* C4: load on an absent credential file returns None; delete leaves the
\* credential file absent, does not raise, and leaves the key file alone.
C4_Absence ==
    /\ []((out.op = "load" /\ credFile = None) => out.ret = None)
    /\ []((out.op = "delete") => (credFile = None /\ ~out.raised))
    /\ [][out'.op = "delete" => keyFile' = keyFile]_vars

C4_Witness ==
    /\ out.op = "load" /\ out.after.op = "delete" /\ out.ret = None
    /\ saved # None

\* C5: a Divide with a second operand that is zero ("0" or "-0") is turned
\* down on the spot: no request goes out, no call stays pending, the result
\* and the history stay as they were; no suspended or sent division has a
\* zero divisor.
C5_ZeroDivisorGuard ==
    /\ [][(out'.op = "calculate" /\ out'.operation = "/"
              /\ out'.text2 \in {<<48>>, <<45, 48>>}) =>
             /\ out'.sent = <<>>
             /\ out'.msg # None
             /\ stack' = stack
             /\ result_label' = result_label
             /\ history_text' = history_text]_vars
    /\ [](\A i \in DOMAIN stack :
             (stack[i].f = "calc" /\ stack[i].op = "/") => stack[i].num2.h # 0)
    /\ []((out.op = "call_api" /\ out.operation = "/") => out.num2.h # 0)

C5_Witness ==
    /\ out.op = "calculate" /\ out.operation = "/" /\ out.text2 = <<45, 48>>
    /\ out.msg = Message("Cannot divide by zero")
    /\ history_text # <<>>

\* C6: the credential file is written only by a Test and Save whose
\* validation request, for the stripped non-empty key it then stores, came
\* back with status 200; every other step leaves the file as it was.
C6_WriteOnlyAfterValidation ==
    /\ [](out.wrote =>
             /\ out.op = "test_and_save_key"
             /\ Len(out.sent) = 1
             /\ out.sent[1] = ValidateRequest(out.sent[1].key)
             /\ out.sent[1].key # <<>>
             /\ ~IsSpace(out.sent[1].key[1])
             /\ ~IsSpace(out.sent[1].key[Len(out.sent[1].key)])
             /\ out.resp.kind = "http" /\ out.resp.status = 200
             /\ LoadApiKey(out.km, credFile) = Str(out.sent[1].key))
    /\ [][credFile' # credFile => out'.wrote]_vars

C6_Witness ==
    /\ out.wrote /\ mainUI
    /\ out.sent[1].key = <<233>>

\* C7: when call_api raises, calculate shows its message and changes
\* nothing: result, history, credential file and client stay; the history
\* grows only in a step whose call_api returned a number.
C7_FailureLeavesState ==
    /\ [][(out'.op = "call_api" /\ ~out'.ret.ok) =>
             /\ out'.msg # None /\ out'.msg.prefix = "API call failed"
             /\ result_label' = result_label
             /\ history_text' = history_text
             /\ credFile' = credFile
             /\ api_client' = api_client]_vars
    /\ [][Len(history_text') > Len(history_text) =>
             (out'.op = "call_api" /\ out'.ret.ok)]_vars

C7_Witness ==
    /\ out.op = "call_api" /\ ~out.ret.ok
    /\ history_text # <<>> /\ result_label # None

\* C8 as stated: an error carrying the status on every non-2xx status and
\* on no 2xx status.
C8_Original ==
    (out.op = "call_api" /\ out.resp.kind = "http") =>
        IF out.resp.status >= 200 /\ out.resp.status <= 299
        THEN out.ret.ok \/ out.ret.e.e # "API Error"
        ELSE ~out.ret.ok /\ out.ret.e.e = "API Error"
             /\ out.ret.e.status = out.resp.status

\* C8 amended: call_api raises "API Error: <status>" on every status other
\* than 200, and never on status 200.
C8_ErrorUnlessStatus200 ==
    (out.op = "call_api" /\ out.resp.kind = "http") =>
        IF out.resp.status = 200
        THEN out.ret.ok \/ out.ret.e.e # "API Error"
        ELSE ~out.ret.ok /\ out.ret.e.e = "API Error"
             /\ out.ret.e.status = out.resp.status

C8_Witness ==
    /\ out.op = "call_api" /\ out.resp.kind = "http" /\ out.resp.status = 201
    /\ ~out.ret.ok /\ out.ret.e.status = 201

\* C9: status 200 with a candidate text that is no number makes call_api
\* raise the wrapped ValueError, which is neither the API error nor the
\* transport error nor the message for a bad operand, and no result is
\* shown or logged.
C9_ParseFailure ==
    /\ []((/\ out.op = "call_api" /\ out.resp.kind = "http" /\ out.resp.status = 200
           /\ out.resp.json /\ out.resp.cand /\ ~ParseFloat(out.resp.text).ok) =>
             /\ ~out.ret.ok
             /\ out.ret.e.e = "ValueError" /\ out.ret.e.text = out.resp.text
             /\ out.msg = out.ret.e
             /\ out.msg.prefix = "API call failed")
    /\ [][(/\ out'.op = "call_api" /\ out'.resp.kind = "http" /\ out'.resp.status = 200
           /\ out'.resp.json /\ out'.resp.cand /\ ~ParseFloat(out'.resp.text).ok) =>
             (result_label' = result_label /\ history_text' = history_text)]_vars

C9_Witness ==
    /\ out.op = "call_api" /\ out.resp.status = 200 /\ out.resp.text = <<97, 52>>
    /\ ~out.ret.ok /\ history_text # <<>>

\* C10 as stated: whenever the main window takes events the client holds a
\* non-empty key, the one load_api_key reads from the file; and a startup
\* without a key never creates the main window.
C10_Original ==
    /\ MainUIActive =>
          /\ Truthy(api_client)
          /\ LoadApiKey(mgr["app"].key, credFile) = api_client
    /\ root = "destroyed" => ~mainUI

====
